---- MODULE Spec2Model ----
(***************************************************************************)
(* Model of the task-tracking single page application (the App component). *)
(* The component's React state is the client state; every async handler is *)
(* split at its await into the step that issues the request and the step   *)
(* that runs when the response resolves.  A handler closes over the value  *)
(* of `tasks` of the render in which it was started, so a request carries  *)
(* that value (snap) to its continuation.  The REST backend is the         *)
(* environment: it serves requests one at a time, in any order, and a      *)
(* response may fail before or after the backend acted.                    *)
(***************************************************************************)
EXTENDS Integers, Sequences, FiniteSets, Bags

\* ------------------------------------------------------------------ bounds
\* requests (create, toggle, delete) the user issues after the initial load
MaxOps == 2
\* identifiers the backend hands out: 1..MaxId
MaxId == 2
\* records of a collection drawn for the derived-view specification
MaxLen == 3

\* tasks .. filterStatus: the component's state.  A task record is
\*   [id, title, description, priority, completed]; createdAt is only shown.
\* mounted: the mount effect has run.  inflight: the bag of requests sent and
\*   not yet handled.  nreq: requests sent so far.
\* server, nextId: the backend's records, newest first, and the next id.
\* last: the handler that ended in the step just taken.  clean: no failed
\*   response has been handled so far.
VARIABLES
    tasks, title, description, priority, loading, error,
    searchQuery, filterStatus,
    mounted, inflight, nreq,
    server, nextId,
    last, clean

vars == <<tasks, title, description, priority, loading, error,
          searchQuery, filterStatus, mounted, inflight, nreq,
          server, nextId, last, clean>>

\* ------------------------------------------------------------------ text
\* A string is a sequence of one-character strings.
Lower(c) == IF c = "A" THEN "a" ELSE IF c = "B" THEN "b" ELSE c

toLowerCase(s) == [i \in 1..Len(s) |-> Lower(s[i])]

IsSpace(c) == c = " "

RECURSIVE trimStart(_)
trimStart(s) == IF s # <<>> /\ IsSpace(Head(s)) THEN trimStart(Tail(s)) ELSE s

RECURSIVE trimEnd(_)
trimEnd(s) ==
    IF s # <<>> /\ IsSpace(s[Len(s)]) THEN trimEnd(SubSeq(s, 1, Len(s) - 1)) ELSE s

trim(s) == trimEnd(trimStart(s))

includes(s, q) ==
    \E i \in 0..(Len(s) - Len(q)) : SubSeq(s, i + 1, i + Len(q)) = q

\* the messages the component shows, without their leading symbol
MsgNone == ""
MsgBackend == "Backend not running. Start the server!"
MsgFields == "Please fill in both fields"
MsgAdd == "Failed to add task"
MsgUpdate == "Failed to update task"
MsgDelete == "Failed to delete task"

Priorities == {"low", "medium", "high"}
Statuses == {"all", "active", "completed"}

\* what the user can type into the title and description inputs
TextInputs == {<<>>, <<" ">>, <<" ", "A">>}

Ids(ts) == {ts[i].id : i \in 1..Len(ts)}


\* ------------------------------------------------------------ derived view
matchesSearch(task, q) ==
    \/ includes(toLowerCase(task.title), toLowerCase(q))
    \/ includes(toLowerCase(task.description), toLowerCase(q))

matchesFilter(task, s) ==
    \/ s = "all"
    \/ (s = "active" /\ ~task.completed)
    \/ (s = "completed" /\ task.completed)

\* filteredTasks with the two criteria joined by || instead of &&
filteredTasksEither(ts, q, s) ==
    SelectSeq(ts, LAMBDA task : matchesSearch(task, q) \/ matchesFilter(task, s))

filteredTasks(ts, q, s) ==
    SelectSeq(ts, LAMBDA task : matchesSearch(task, q) /\ matchesFilter(task, s))

\* stats with the high-priority count taken over completed records too
statsCountsCompletedHigh(ts) ==
    [total |-> Len(ts),
     completed |-> Len(SelectSeq(ts, LAMBDA t : t.completed)),
     active |-> Len(SelectSeq(ts, LAMBDA t : ~t.completed)),
     highPriority |-> Len(SelectSeq(ts, LAMBDA t : t.priority = "high"))]

stats(ts) ==
    [total |-> Len(ts),
     completed |-> Len(SelectSeq(ts, LAMBDA t : t.completed)),
     active |-> Len(SelectSeq(ts, LAMBDA t : ~t.completed)),
     highPriority |-> Len(SelectSeq(ts, LAMBDA t : t.priority = "high" /\ ~t.completed))]

\* ------------------------------------------------------- requests, history
NoData == <<>>

\* a request in flight: what was sent, the value of `tasks` its handler closed
\* over, and, once it resolved, how it ended and the body of the response
Request(kind, id, body) ==
    [kind |-> kind, id |-> id, body |-> body,
     snap |-> tasks, stage |-> "sent", data |-> NoData]

One(r) == SetToBag({r})

Pending == BagToSet(inflight)

\* the step just taken: the handler that ran to its end, and how it ended
Event(op, outcome, id) == [op |-> op, outcome |-> outcome, id |-> id]

Quiet == Event("none", "none", 0)

\* a step that ends no handler
Silent == last' = Quiet /\ UNCHANGED clean

Resolved(r) == r.stage \in {"ok", "fail"}

\* ---------------------------------------------------------------- backend
Flip(rec) == [rec EXCEPT !.completed = ~rec.completed]

Created(body) ==
    [id |-> nextId, title |-> body.title, description |-> body.description,
     priority |-> body.priority, completed |-> FALSE]

ServerAfter(r) ==
    CASE r.kind = "GET" -> server
      [] r.kind = "POST" -> <<Created(r.body[1])>> \o server
      [] r.kind = "PUT" ->
            [i \in 1..Len(server) |->
                IF server[i].id = r.id THEN Flip(server[i]) ELSE server[i]]
      [] r.kind = "DELETE" -> SelectSeq(server, LAMBDA t : t.id # r.id)

ServerData(r) ==
    CASE r.kind = "GET" -> server
      [] r.kind = "POST" -> <<Created(r.body[1])>>
      [] r.kind = "PUT" -> SelectSeq(ServerAfter(r), LAMBDA t : t.id = r.id)
      [] r.kind = "DELETE" -> NoData

CanServe(r) ==
    /\ r.stage = "sent"
    /\ r.kind \in {"PUT", "DELETE"} => r.id \in Ids(server)

Reply(r, stage, data) ==
    inflight' = (inflight (-) One(r)) (+) One([r EXCEPT !.stage = stage, !.data = data])

ClientUnchanged ==
    UNCHANGED <<tasks, title, description, priority, loading, error,
                searchQuery, filterStatus, mounted, nreq>>

\* the backend serves the request and the response arrives
respondOk(r) ==
    /\ CanServe(r)
    /\ server' = ServerAfter(r)
    /\ nextId' = IF r.kind = "POST" THEN nextId + 1 ELSE nextId
    /\ Reply(r, "ok", ServerData(r))
    /\ Silent
    /\ ClientUnchanged

\* the request does not reach the backend, or the backend refuses it
respondError(r) ==
    /\ r.stage = "sent"
    /\ Reply(r, "fail", NoData)
    /\ Silent
    /\ UNCHANGED <<server, nextId>>
    /\ ClientUnchanged

\* the backend serves the request and the response is lost or unreadable
respondLost(r) ==
    /\ CanServe(r)
    /\ r.kind # "GET"
    /\ server' = ServerAfter(r)
    /\ nextId' = IF r.kind = "POST" THEN nextId + 1 ELSE nextId
    /\ Reply(r, "fail", NoData)
    /\ Silent
    /\ ClientUnchanged

\* ----------------------------------------------------------------- client
ServerUnchanged == UNCHANGED <<server, nextId>>

ViewUnchanged == UNCHANGED <<searchQuery, filterStatus>>

FormUnchanged == UNCHANGED <<title, description, priority>>

Outcome(r) == IF r.stage = "ok" THEN "ok" ELSE "fail"

\* fetchTasks, up to its await: runs once, from the mount effect
fetchTasks ==
    /\ ~mounted
    /\ mounted' = TRUE
    /\ loading' = TRUE
    /\ inflight' = inflight (+)
                    One(Request("GET", 0, NoData))
    /\ nreq' = nreq + 1
    /\ Silent
    /\ UNCHANGED <<tasks, error>>
    /\ FormUnchanged /\ ViewUnchanged /\ ServerUnchanged

fetchTasksSetTasks(r, cur) == IF r.stage = "ok" THEN r.data ELSE cur

fetchTasksSetError(r, cur) == IF r.stage = "ok" THEN MsgNone ELSE MsgBackend

\* fetchTasks, from its await on
fetchTasksResolve(r) ==
    /\ r.kind = "GET" /\ Resolved(r)
    /\ inflight' = inflight (-) One(r)
    /\ tasks' = fetchTasksSetTasks(r, tasks)
    /\ error' = fetchTasksSetError(r, error)
    /\ loading' = FALSE
    /\ last' = Event("fetchTasks", Outcome(r), 0)
    /\ clean' = (clean /\ r.stage = "ok")
    /\ UNCHANGED <<mounted, nreq>>
    /\ FormUnchanged /\ ViewUnchanged /\ ServerUnchanged

\* the form's inputs are disabled while loading
setTitle(v) ==
    /\ mounted /\ ~loading
    /\ title' = v
    /\ Silent
    /\ UNCHANGED <<tasks, description, priority, loading, error, mounted, inflight, nreq>>
    /\ ViewUnchanged /\ ServerUnchanged

setDescription(v) ==
    /\ mounted /\ ~loading
    /\ description' = v
    /\ Silent
    /\ UNCHANGED <<tasks, title, priority, loading, error, mounted, inflight, nreq>>
    /\ ViewUnchanged /\ ServerUnchanged

setPriority(v) ==
    /\ mounted /\ ~loading
    /\ priority' = v
    /\ Silent
    /\ UNCHANGED <<tasks, title, description, loading, error, mounted, inflight, nreq>>
    /\ ViewUnchanged /\ ServerUnchanged

\* the validation without the trim
isBlankUntrimmed(s) == s = <<>>

\* !s.trim()
isBlank(s) == trim(s) = <<>>

addTaskRejects == isBlank(title) \/ isBlank(description)

\* the submit button left enabled while loading
submitNeverDisabled == FALSE

\* the submit button's disabled={loading}
submitDisabled == loading

\* addTask, up to its return or its await; the submit button is disabled
\* while loading
addTask ==
    /\ mounted /\ ~submitDisabled
    /\ IF addTaskRejects
         THEN /\ error' = MsgFields
              /\ last' = Event("addTask", "rejected", 0)
              /\ UNCHANGED clean
              /\ UNCHANGED <<loading, inflight, nreq>>
         ELSE /\ nreq < MaxOps + 1 /\ nextId <= MaxId
              /\ loading' = TRUE
              /\ inflight' = inflight (+)
                    One(Request("POST", 0,
                        <<[title |-> title, description |-> description,
                           priority |-> priority]>>))
              /\ nreq' = nreq + 1
              /\ Silent
              /\ UNCHANGED error
    /\ UNCHANGED <<tasks, mounted>>
    /\ FormUnchanged /\ ViewUnchanged /\ ServerUnchanged

addTaskSetTasks(r, cur) == IF r.stage = "ok" THEN <<r.data[1]>> \o r.snap ELSE cur

addTaskSetError(r, cur) == IF r.stage = "ok" THEN MsgNone ELSE MsgAdd

\* addTask, from its await on
addTaskResolve(r) ==
    /\ r.kind = "POST" /\ Resolved(r)
    /\ inflight' = inflight (-) One(r)
    /\ tasks' = addTaskSetTasks(r, tasks)
    /\ error' = addTaskSetError(r, error)
    /\ IF r.stage = "ok"
         THEN title' = <<>> /\ description' = <<>> /\ priority' = "medium"
         ELSE FormUnchanged
    /\ loading' = FALSE
    /\ last' = Event("addTask", Outcome(r), 0)
    /\ clean' = (clean /\ r.stage = "ok")
    /\ UNCHANGED <<mounted, nreq>>
    /\ ViewUnchanged /\ ServerUnchanged

\* the records whose toggle and delete buttons are rendered
Visible == Ids(filteredTasks(tasks, searchQuery, filterStatus))

\* toggleTask, up to its await
toggleTask(id) ==
    /\ mounted /\ id \in Visible
    /\ nreq < MaxOps + 1
    /\ inflight' = inflight (+)
                    One(Request("PUT", id, NoData))
    /\ nreq' = nreq + 1
    /\ Silent
    /\ UNCHANGED <<tasks, loading, error, mounted>>
    /\ FormUnchanged /\ ViewUnchanged /\ ServerUnchanged

\* toggleTask putting the returned record in front instead of in place
toggleTaskSetTasksPrepends(r, cur) ==
    IF r.stage = "ok" THEN <<r.data[1]>> \o r.snap ELSE cur

\* toggleTask written as a functional update of the current collection
toggleTaskSetTasksCurrent(r, cur) ==
    IF r.stage = "ok"
      THEN [i \in 1..Len(cur) |-> IF cur[i].id = r.id THEN r.data[1] ELSE cur[i]]
      ELSE cur

toggleTaskSetTasks(r, cur) ==
    IF r.stage = "ok"
      THEN [i \in 1..Len(r.snap) |->
              IF r.snap[i].id = r.id THEN r.data[1] ELSE r.snap[i]]
      ELSE cur

toggleTaskSetError(r, cur) == IF r.stage = "ok" THEN cur ELSE MsgUpdate

\* toggleTask, from its await on
toggleTaskResolve(r) ==
    /\ r.kind = "PUT" /\ Resolved(r)
    /\ inflight' = inflight (-) One(r)
    /\ tasks' = toggleTaskSetTasks(r, tasks)
    /\ error' = toggleTaskSetError(r, error)
    /\ last' = Event("toggleTask", Outcome(r), r.id)
    /\ clean' = (clean /\ r.stage = "ok")
    /\ UNCHANGED <<loading, mounted, nreq>>
    /\ FormUnchanged /\ ViewUnchanged /\ ServerUnchanged

\* deleteTask, up to its await
deleteTask(id) ==
    /\ mounted /\ id \in Visible
    /\ nreq < MaxOps + 1
    /\ inflight' = inflight (+)
                    One(Request("DELETE", id, NoData))
    /\ nreq' = nreq + 1
    /\ Silent
    /\ UNCHANGED <<tasks, loading, error, mounted>>
    /\ FormUnchanged /\ ViewUnchanged /\ ServerUnchanged

\* deleteTask with the filter's test inverted
deleteTaskSetTasksInverted(r, cur) ==
    IF r.stage = "ok" THEN SelectSeq(r.snap, LAMBDA task : task.id = r.id) ELSE cur

\* deleteTask removing the record whatever the response was
deleteTaskSetTasksAnyway(r, cur) == SelectSeq(r.snap, LAMBDA task : task.id # r.id)

deleteTaskSetTasks(r, cur) ==
    IF r.stage = "ok" THEN SelectSeq(r.snap, LAMBDA task : task.id # r.id) ELSE cur

deleteTaskSetError(r, cur) == IF r.stage = "ok" THEN MsgNone ELSE MsgDelete

\* deleteTask, from its await on
deleteTaskResolve(r) ==
    /\ r.kind = "DELETE" /\ Resolved(r)
    /\ inflight' = inflight (-) One(r)
    /\ tasks' = deleteTaskSetTasks(r, tasks)
    /\ error' = deleteTaskSetError(r, error)
    /\ last' = Event("deleteTask", Outcome(r), r.id)
    /\ clean' = (clean /\ r.stage = "ok")
    /\ UNCHANGED <<loading, mounted, nreq>>
    /\ FormUnchanged /\ ViewUnchanged /\ ServerUnchanged

\* ---------------------------------------------------------- specification
\* a record the backend may hold before the page is opened
Seed(i) ==
    [id |-> i, title |-> <<"A">>, description |-> <<"b">>,
     priority |-> "high", completed |-> FALSE]

Init ==
    /\ tasks = <<>>
    /\ title = <<>>
    /\ description = <<>>
    /\ priority = "medium"
    /\ loading = FALSE
    /\ error = MsgNone
    /\ searchQuery = <<>>
    /\ filterStatus = "all"
    /\ mounted = FALSE
    /\ inflight = EmptyBag
    /\ nreq = 0
    /\ \E init \in {<<>>, <<Seed(1)>>} :
          /\ server = init
          /\ nextId = Len(init) + 1
    /\ last = Quiet
    /\ clean = TRUE

Next ==
    \/ fetchTasks
    \/ \E v \in TextInputs : setTitle(v)
    \/ \E v \in TextInputs : setDescription(v)
    \/ \E v \in Priorities : setPriority(v)
    \/ addTask
    \/ \E id \in 1..MaxId : toggleTask(id)
    \/ \E id \in 1..MaxId : deleteTask(id)
    \/ \E r \in Pending : respondOk(r)
    \/ \E r \in Pending : respondError(r)
    \/ \E r \in Pending : respondLost(r)
    \/ \E r \in Pending : fetchTasksResolve(r)
    \/ \E r \in Pending : addTaskResolve(r)
    \/ \E r \in Pending : toggleTaskResolve(r)
    \/ \E r \in Pending : deleteTaskResolve(r)

Spec == Init /\ [][Next]_vars

\* ------------------------------------------- derived view, specification
\* The derived view is a function of the collection, the query and the status
\* alone.  This specification starts from a loaded collection and lets the
\* user retype the query and pick the status.
ViewTexts == {<<"A", "b">>, <<"b", "a">>, <<"B">>}

ViewRecords ==
    [id : 1..MaxLen, title : ViewTexts, description : {<<"a">>, <<"B", "b">>},
     priority : {"medium"}, completed : BOOLEAN]

Queries == {<<>>, <<"a">>, <<"A", "B">>, <<"b">>, <<" ">>}

\* lists as the backend returns them, newest record first
ViewLists ==
    UNION {{ts \in [1..n -> ViewRecords] : \A i \in 1..n : ts[i].id = n + 1 - i}
            : n \in 0..MaxLen}

setSearchQuery(q) ==
    /\ searchQuery' = q
    /\ Silent
    /\ UNCHANGED <<tasks, loading, error, mounted, inflight, nreq>>
    /\ FormUnchanged /\ ServerUnchanged
    /\ UNCHANGED filterStatus

setFilterStatus(f) ==
    /\ filterStatus' = f
    /\ Silent
    /\ UNCHANGED <<tasks, loading, error, mounted, inflight, nreq>>
    /\ FormUnchanged /\ ServerUnchanged
    /\ UNCHANGED searchQuery

InitView ==
    /\ tasks \in ViewLists
    /\ server = tasks
    /\ nextId = MaxLen + 1
    /\ title = <<>>
    /\ description = <<>>
    /\ priority = "medium"
    /\ loading = FALSE
    /\ error = MsgNone
    /\ searchQuery = <<>>
    /\ filterStatus = "all"
    /\ mounted = TRUE
    /\ inflight = EmptyBag
    /\ nreq = 1
    /\ last = Event("fetchTasks", "ok", 0)
    /\ clean = TRUE

NextView ==
    \/ \E q \in Queries : setSearchQuery(q)
    \/ \E f \in Statuses : setFilterStatus(f)

SpecView == InitView /\ [][NextView]_vars

\* ------------------------------------------------------------------ claims
\* the step runs the continuation of the handler that sent r
Handles(r) ==
    \/ fetchTasksResolve(r)
    \/ addTaskResolve(r)
    \/ toggleTaskResolve(r)
    \/ deleteTaskResolve(r)

\* a text that is empty once leading and trailing whitespace is removed
OnlySpaces(s) == \A i \in 1..Len(s) : s[i] = " "

Pos(ts, id) == {i \in 1..Len(ts) : ts[i].id = id}

\* C1: submitting the form with a title or a description that is empty after
\* trimming issues no request, leaves the collection as it is and sets a
\* non-empty error.
C1_BlankCreateRejectedLocally ==
    [][(addTask /\ (OnlySpaces(title) \/ OnlySpaces(description)))
        => /\ inflight' = inflight
           /\ nreq' = nreq
           /\ tasks' = tasks
           /\ error' # MsgNone]_vars

\* the form was submitted with a whitespace-only title and a filled-in
\* description, over a loaded collection, and was rejected
C1_Witness ==
    /\ last = Event("addTask", "rejected", 0)
    /\ title = <<" ">>
    /\ ~OnlySpaces(description)
    /\ error = MsgFields
    /\ tasks # <<>>

\* C2: when a create succeeds, the collection becomes the returned record
\* followed by the collection as it stood just before the response was handled.
C2_CreatePrependsToCurrent ==
    [][\A r \in Pending :
          (r.stage = "ok" /\ addTaskResolve(r)) => tasks' = <<r.data[1]>> \o tasks]_vars

\* C3: when a toggle succeeds, the record with that id is the returned record,
\* at the position the record had just before the response was handled.
C3_ToggleReplacesInPlace ==
    [][\A r \in Pending :
          (r.stage = "ok" /\ toggleTaskResolve(r))
            => /\ Pos(tasks', r.id) = Pos(tasks, r.id)
               /\ Pos(tasks', r.id) # {}
               /\ \A i \in Pos(tasks', r.id) : tasks'[i] = r.data[1]]_vars

\* C4: when a delete succeeds, no record with that id is in the collection and
\* the error is empty.
C4_DeleteRemoves ==
    [][\A r \in Pending :
          (r.stage = "ok" /\ deleteTaskResolve(r))
            => (r.id \notin Ids(tasks') /\ error' = MsgNone)]_vars

\* a delete has just succeeded, its record is gone and another record is left
C4_Witness ==
    /\ last.op = "deleteTask" /\ last.outcome = "ok"
    /\ last.id \notin Ids(tasks)
    /\ tasks # <<>>
    /\ error = MsgNone

FailureMessage(kind) ==
    CASE kind = "GET" -> MsgBackend
      [] kind = "POST" -> MsgAdd
      [] kind = "PUT" -> MsgUpdate
      [] kind = "DELETE" -> MsgDelete

\* C5: a failed response to a load, create, toggle or delete leaves the
\* collection as it was and sets that operation's non-empty error message.
C5_FailureKeepsCollection ==
    [][\A r \in Pending :
          (r.stage = "fail" /\ Handles(r))
            => /\ tasks' = tasks
               /\ error' = FailureMessage(r.kind)
               /\ error' # MsgNone]_vars

\* a delete has just failed over a collection that still holds its record
C5_Witness ==
    /\ last.op = "deleteTask" /\ last.outcome = "fail"
    /\ last.id \in Ids(tasks)
    /\ error = MsgDelete

\* C6: after a successful response to a load, create, toggle or delete is
\* handled, the error is empty.
C6_SuccessClearsError ==
    [][\A r \in Pending : (r.stage = "ok" /\ Handles(r)) => error' = MsgNone]_vars

\* C7: the statistics are taken over the whole collection, active plus
\* completed is the total, and high priority is at most active.
C7_StatsInvariant ==
    /\ stats(tasks).total = Len(tasks)
    /\ stats(tasks).active + stats(tasks).completed = stats(tasks).total
    /\ stats(tasks).highPriority <= stats(tasks).active

\* a collection with a completed high-priority record and an active one
C7_Witness ==
    /\ \E i \in 1..Len(tasks) : tasks[i].completed /\ tasks[i].priority = "high"
    /\ \E i \in 1..Len(tasks) : ~tasks[i].completed
    /\ last.op = "toggleTask" /\ last.outcome = "ok"

byQuery(ts, q) == SelectSeq(ts, LAMBDA task : matchesSearch(task, q))

byStatus(ts, f) == SelectSeq(ts, LAMBDA task : matchesFilter(task, f))

\* C8: filtering by query then by status, and by status then by query, both
\* give the combined filter's list, and filtering that list again changes
\* nothing.
C8_FilterCommutesAndIsIdempotent ==
    LET shown == filteredTasks(tasks, searchQuery, filterStatus) IN
    /\ byStatus(byQuery(tasks, searchQuery), filterStatus) = shown
    /\ byQuery(byStatus(tasks, filterStatus), searchQuery) = shown
    /\ filteredTasks(shown, searchQuery, filterStatus) = shown

\* a query with an upper-case letter and a status that each hide a record the
\* other one shows, with one record left
C8_Witness ==
    LET shown == filteredTasks(tasks, searchQuery, filterStatus) IN
    /\ searchQuery = <<"A", "B">>
    /\ filterStatus # "all"
    /\ shown # <<>>
    /\ byQuery(tasks, searchQuery) # shown
    /\ byStatus(tasks, filterStatus) # shown

\* C9: no two records of the collection have the same id.
C9_UniqueIds ==
    \A i, j \in 1..Len(tasks) : tasks[i].id = tasks[j].id => i = j

\* a toggle has just succeeded over a collection of two records
C9_Witness ==
    /\ Len(tasks) >= 2
    /\ last.op = "toggleTask" /\ last.outcome = "ok"

\* C10: every success handler builds the collection from the collection its
\* handler was started with, whatever responses were handled in between.
C10_SuccessBuildsFromSnapshot ==
    [][\A r \in Pending :
          r.stage = "ok" =>
            /\ addTaskResolve(r) => tasks' = <<r.data[1]>> \o r.snap
            /\ toggleTaskResolve(r) =>
                  /\ Len(tasks') = Len(r.snap)
                  /\ \A i \in 1..Len(r.snap) :
                        tasks'[i] = IF r.snap[i].id = r.id THEN r.data[1] ELSE r.snap[i]
            /\ deleteTaskResolve(r) =>
                  /\ Ids(tasks') = Ids(r.snap) \ {r.id}
                  /\ \A i \in 1..Len(tasks') : \E j \in 1..Len(r.snap) : tasks'[i] = r.snap[j]]_vars

\* no request is in flight, every response was a success, and a record the
\* backend deleted is in the collection again
C10_Witness ==
    /\ inflight = EmptyBag
    /\ mounted /\ clean
    /\ \E i \in 1..Len(tasks) : tasks[i].id \notin Ids(server)

\* the load and create requests sent and not yet handled
LoadOrCreate == {r \in Pending : r.kind \in {"GET", "POST"}}

\* C11: loading is true exactly when a load or a create is in flight, and at
\* most one of them is in flight at a time.
C11_LoadingExact ==
    /\ loading <=> (LoadOrCreate # {})
    /\ Cardinality(LoadOrCreate) <= 1
    /\ \A r \in LoadOrCreate : CopiesIn(r, inflight) = 1

\* a toggle has just been handled while a create is in flight, and loading
\* is still true
C11_Witness ==
    /\ loading
    /\ \E r \in Pending : r.kind = "POST"
    /\ last.op = "toggleTask"

====
